---- MODULE Spec2Model ----
(***************************************************************************)
(* State-machine model of the OSCE study buddy (src/main.py): the case     *)
(* store (load_cases), the completion gateway (get_ai_response), the       *)
(* Streamlit session (main, home_page, osce_page, feedback_page) and the   *)
(* feedback sink (ensure_feedback_csv, save_feedback).                     *)
(*                                                                         *)
(* Text values are sequences of tokens, so that strip(), endswith() and    *)
(* replace() are computed and not assumed.  A JSON document is a record    *)
(* [json, fields]; a Python dict is a function from its keys.              *)
(***************************************************************************)
EXTENDS Integers, Sequences, FiniteSets, TLC

\* ------------------------------------------------------------------ bounds
\* Most user/assistant exchanges the model follows in one conversation.
MaxExchanges == 2
\* Most rows (header excluded) the feedback file receives in one behaviour.
MaxRows == 1
\* Most entries os.listdir("cases") returns in the case-store specification.
MaxFiles == 3
\* Most save_feedback calls one concurrent writer makes.
MaxSaves == 1

\* ------------------------------------------------------------ Python values
\* dict.get(key, default)
Get(d, k, default) == IF k \in DOMAIN d THEN d[k] ELSE default

IsWhitespace(ch) == ch \in {" ", "\t", "\n"}

RECURSIVE lstrip(_)
lstrip(s) ==
    IF s = <<>> THEN <<>>
    ELSE IF IsWhitespace(Head(s)) THEN lstrip(Tail(s)) ELSE s

RECURSIVE rstrip(_)
rstrip(s) ==
    IF s = <<>> THEN <<>>
    ELSE IF IsWhitespace(s[Len(s)]) THEN rstrip(SubSeq(s, 1, Len(s) - 1)) ELSE s

\* str.strip(): leading and trailing whitespace removed.
strip(s) == rstrip(lstrip(s))

\* Python truthiness of a str.
Truthy(s) == s # <<>>

\* --------------------------------------------------------------- case store
\* A file name is a sequence of tokens: "a.json.json" is <<"a", ".json", ".json">>.
JsonExt == ".json"

\* filename.endswith(".json")
endswith_json(filename) == filename # <<>> /\ filename[Len(filename)] = JsonExt

\* filename.replace(".json", ""): every occurrence is removed.
IsNotJsonExt(tok) == tok # JsonExt
replace_json(filename) == SelectSeq(filename, IsNotJsonExt)

\* A case_id that is a JSON list or object cannot be a dict key (TypeError).
Unhashable == <<"[", "]">>

\* One try-body of load_cases (lines 172-175) on one file: open, json.load,
\* case_data.get, cases[case_id] = case_data.  raised = an Exception reached
\* the except clause of line 176.
LoadOne(file) ==
    IF file.doc.json # "object"
        \* "unreadable": open() raises; "invalid": json.load raises;
        \* "array": json.load returns a list and .get raises AttributeError.
        THEN [raised |-> TRUE, case_id |-> <<>>, case_data |-> <<>>]
    ELSE LET case_id == Get(file.doc.fields, "case_id", replace_json(file.name))
         IN  IF case_id = Unhashable
                 THEN [raised |-> TRUE, case_id |-> <<>>, case_data |-> <<>>]
                 ELSE [raised |-> FALSE, case_id |-> case_id,
                       case_data |-> file.doc.fields]

\* cases[case_id] = case_data
DictSet(d, k, v) == [x \in DOMAIN d \cup {k} |-> IF x = k THEN v ELSE d[x]]

EmptyDict == [x \in {} |-> <<>>]

\* A faulty variant of load_cases_loop in which the first failure ends the scan.
RECURSIVE load_cases_abort(_, _, _)
load_cases_abort(listing, cases, errors) ==
    IF listing = <<>> THEN [cases |-> cases, errors |-> errors]
    ELSE LET file == Head(listing)
             r == LoadOne(file)
         IN  IF ~endswith_json(file.name)
                 THEN load_cases_abort(Tail(listing), cases, errors)
             ELSE IF r.raised
                 THEN [cases |-> cases, errors |-> Append(errors, file.name)]
             ELSE load_cases_abort(Tail(listing),
                                   DictSet(cases, r.case_id, r.case_data), errors)

\* The loop of load_cases (lines 168-177) over os.listdir's result, carrying
\* the dict built so far and the st.error reports made so far.
RECURSIVE load_cases_loop(_, _, _)
load_cases_loop(listing, cases, errors) ==
    IF listing = <<>> THEN [cases |-> cases, errors |-> errors]
    ELSE LET file == Head(listing)
             r == LoadOne(file)
         IN  IF ~endswith_json(file.name)
                 THEN load_cases_loop(Tail(listing), cases, errors)
             ELSE IF r.raised
                 THEN load_cases_loop(Tail(listing), cases, Append(errors, file.name))
             ELSE load_cases_loop(Tail(listing),
                                  DictSet(cases, r.case_id, r.case_data), errors)

\* load_cases(): {} when the directory is absent, else the loop's result.
load_cases(dir) ==
    IF dir.exists THEN load_cases_loop(dir.listing, EmptyDict, <<>>)
    ELSE [cases |-> EmptyDict, errors |-> <<>>]

\* ------------------------------------------------------- completion gateway
\* get_singlish_instruction (one token stands for each of the three texts).
get_singlish_instruction(level) ==
    IF level = "high" THEN "heavy Singlish"
    ELSE IF level = "moderate" THEN "moderate Singlish"
    ELSE "standard English with minimal Singlish"

\* A past_medical_history value: a list of strings, or a value join() rejects.
DefaultPmh == [type |-> "list", items |-> <<"Not provided">>]

\* The f-string of lines 223-260.  raised: chr(10).join(...) raises TypeError
\* when past_medical_history is not a list of strings.
system_prompt(case_data) ==
    LET pmh == Get(case_data, "past_medical_history", DefaultPmh)
    IN  IF pmh.type # "list"
            THEN [raised |-> TRUE, text |-> <<"TypeError">>]
            ELSE [raised |-> FALSE,
                  text |-> <<"You are a standardized patient", "Name:">>
                           \o Get(case_data, "patient_name", <<"Patient">>)
                           \o <<"Age:">> \o Get(case_data, "age", <<"Unknown">>)
                           \o <<"Chief Complaint:">>
                           \o Get(case_data, "chief_complaint", <<"Not specified">>)
                           \o <<"PAST MEDICAL HISTORY:">> \o pmh.items
                           \o <<"ALLERGIES:">>
                           \o Get(case_data, "allergies", <<"No known allergies">>)
                           \o <<"LANGUAGE STYLE:",
                                get_singlish_instruction(
                                    Get(case_data, "singlish_level", "low")),
                                "IMPORTANT RULES">>]

\* The except clause of lines 274-275.
Fallback(detail) ==
    <<"I'm sorry, I'm having trouble responding right now. (Error: ">>
        \o detail \o <<")">>

\* messages=[{"role": "system", ...}, *messages] (lines 264-267)
request_messages(prompt_text, messages) ==
    <<[role |-> "system", content |-> prompt_text]>> \o messages

NoPayload == <<>>

\* A faulty variant of get_ai_response whose prompt building sits outside the try.
get_ai_response_unguarded(messages, case_data, env) ==
    LET prompt == system_prompt(case_data)
    IN  IF ~env.api_key
            THEN [raised |-> FALSE, payload |-> NoPayload,
                  text |-> Fallback(<<"The api_key client option must be set">>)]
        ELSE IF prompt.raised
            THEN [raised |-> TRUE, payload |-> NoPayload, text |-> <<>>]
        ELSE IF env.api.kind = "error"
            THEN [raised |-> FALSE,
                  payload |-> request_messages(prompt.text, messages),
                  text |-> Fallback(env.api.text)]
        ELSE IF env.api.kind = "malformed"
            THEN [raised |-> FALSE,
                  payload |-> request_messages(prompt.text, messages),
                  text |-> Fallback(<<"list index out of range">>)]
        ELSE [raised |-> FALSE,
              payload |-> request_messages(prompt.text, messages),
              text |-> env.api.text]

\* get_ai_response (lines 215-275).  env.api_key: OPENAI_API_KEY is set;
\* env.api: what client.chat.completions.create does for this call.  The
\* result carries the text returned, the payload handed to the API (NoPayload
\* when the call was not reached) and whether an exception left the function.
get_ai_response(messages, case_data, env) ==
    LET prompt == system_prompt(case_data)
    IN  IF ~env.api_key
            \* OpenAI(api_key=None) raises inside the try
            THEN [raised |-> FALSE, payload |-> NoPayload,
                  text |-> Fallback(<<"The api_key client option must be set">>)]
        ELSE IF prompt.raised
            THEN [raised |-> FALSE, payload |-> NoPayload,
                  text |-> Fallback(prompt.text)]
        ELSE IF env.api.kind = "error"
            THEN [raised |-> FALSE,
                  payload |-> request_messages(prompt.text, messages),
                  text |-> Fallback(env.api.text)]
        ELSE IF env.api.kind = "malformed"
            \* response.choices[0] on an empty choices list
            THEN [raised |-> FALSE,
                  payload |-> request_messages(prompt.text, messages),
                  text |-> Fallback(<<"list index out of range">>)]
        ELSE [raised |-> FALSE,
              payload |-> request_messages(prompt.text, messages),
              text |-> env.api.text]

\* ------------------------------------------------------------ feedback sink
\* feedback.csv: whether it exists, and its rows in file order.
NoFile == [exists |-> FALSE, rows |-> <<>>]

\* writer.writerow(["timestamp", "feedback", "rating"]) (line 188)
Header == [timestamp |-> "timestamp", feedback |-> <<"feedback">>, rating |-> "rating"]

\* What is left of a row whose first bytes a header written at offset 0
\* replaced (the header line is shorter than any feedback row).
TornRow == [timestamp |-> "", feedback |-> <<>>, rating |-> ""]

\* open(feedback_file, "w"): the file is created, or truncated to nothing.
open_w(file) == [exists |-> TRUE, rows |-> <<>>]

\* The header row flushed through the "w" handle, whose offset is 0.
write_header(file) ==
    IF file.rows = <<>> THEN [file EXCEPT !.rows = <<Header>>]
    ELSE IF file.rows[1] = Header THEN file
    ELSE [file EXCEPT !.rows = <<Header, TornRow>> \o Tail(file.rows)]

\* The row flushed through the "a" handle (lines 197-199): O_APPEND.
append_row(file, row) == [exists |-> TRUE, rows |-> Append(file.rows, row)]

\* ensure_feedback_csv run without interruption (lines 182-189).
ensure_feedback_csv(file) ==
    IF ~file.exists THEN write_header(open_w(file)) ELSE file

\* save_feedback run without interruption (lines 192-199).
save_feedback(file, timestamp, feedback_text, rating) ==
    append_row(ensure_feedback_csv(file),
               [timestamp |-> timestamp, feedback |-> feedback_text,
                rating |-> rating])

\* A faulty variant of feedback_accepted that tests the text without strip().
feedback_accepted_raw(feedback_text) == Truthy(feedback_text)

\* if feedback_text.strip(): (line 470)
feedback_accepted(feedback_text) == Truthy(strip(feedback_text))

\* options of st.select_slider (line 452)
Ratings == {"Very Poor", "Poor", "Average", "Good", "Excellent"}

\* ------------------------------------------------------------- the session
\* st.session_state: a key the code has not set yet holds NoCase / <<>> / FALSE.
NoCase == <<"<unset>">>

\* A turn of st.session_state.messages; "under" records the active case id at
\* the time of the append (it is not a key of the program's dict).
Turn(role, content, under) == [role |-> role, content |-> content, under |-> under]

\* A faulty variant of reset_chat that switches the case and keeps the turns.
reset_chat_keep(ss, selected_case_id) ==
    IF ss.current_case_id = NoCase \/ ss.current_case_id # selected_case_id
        THEN [ss EXCEPT !.current_case_id = selected_case_id]
        ELSE ss

\* "Reset chat when case changes" (lines 344-347).
reset_chat(ss, selected_case_id) ==
    IF ss.current_case_id = NoCase \/ ss.current_case_id # selected_case_id
        THEN [ss EXCEPT !.current_case_id = selected_case_id, !.messages = <<>>]
        ELSE ss

\* osce_page from the selectbox to the reset (lines 337-347), the selectbox
\* returning selected_case_id.
osce_head(ss, selected_case_id) ==
    reset_chat([ss EXCEPT !.case_selector = selected_case_id], selected_case_id)

\* A faulty variant of append_user that starts the list again with the new turn.
append_user_replace(ss, prompt) ==
    [ss EXCEPT !.messages = <<Turn("user", prompt, ss.current_case_id)>>]

\* st.session_state.messages.append({"role": "user", ...}) (line 390)
append_user(ss, prompt) ==
    [ss EXCEPT !.messages = Append(@, Turn("user", prompt, ss.current_case_id))]

\* A faulty variant of append_assistant that tags the reply as a user turn.
append_assistant_user(ss, response) ==
    [ss EXCEPT !.messages = Append(@, Turn("user", response, ss.current_case_id))]

\* st.session_state.messages.append({"role": "assistant", ...}) (line 404)
append_assistant(ss, response) ==
    [ss EXCEPT !.messages = Append(@, Turn("assistant", response, ss.current_case_id))]

\* A faulty variant of ai_messages that sends only the latest turn.
ai_messages_last(messages) ==
    IF messages = <<>> THEN <<>>
    ELSE <<[role |-> messages[Len(messages)].role,
            content |-> messages[Len(messages)].content]>>

\* ai_messages = [{"role": m["role"], "content": m["content"]} for m in ...]
\* (lines 398-399)
ai_messages(messages) ==
    [i \in 1..Len(messages) |->
        [role |-> messages[i].role, content |-> messages[i].content]]

\* A faulty variant of clear_chat that also leaves the simulator page.
clear_chat_home(ss) == [ss EXCEPT !.messages = <<>>, !.current_page = "home"]

\* "Clear Chat" (line 412)
clear_chat(ss) == [ss EXCEPT !.messages = <<>>]

\* A faulty variant of set_page that discards the conversation when the page changes.
set_page_discard(ss, page) ==
    [ss EXCEPT !.current_page = page,
               !.messages = IF page # ss.current_page THEN <<>> ELSE @]

\* st.session_state.current_page = page (lines 298, 304, 329, 417, 443, 480,
\* 495, 499, 503)
set_page(ss, page) == [ss EXCEPT !.current_page = page]

\* One run of main() with no widget event (lines 484-518), as st.rerun()
\* starts it: the page function of current_page runs.  Only osce_page changes
\* the session, and only when there are cases; a run that does not draw the
\* selectbox drops its widget state.
render(ss, keys, selected_case_id) ==
    IF ss.current_page = "osce" /\ keys # {}
        THEN osce_head(ss, selected_case_id)
        ELSE [ss EXCEPT !.case_selector = NoCase]

\* What the selectbox can return in a run with no event on it: its kept
\* value, or, when it was not drawn in the run before, whichever option the
\* framework starts it with.
Selectable(ss, keys) ==
    IF ss.case_selector \in keys THEN {ss.case_selector} ELSE keys

\* ------------------------------------------------------------------ inputs
\* JSON documents of case files.  "fields" is the parsed object.
Doc(json, fields) == [json |-> json, fields |-> fields]

UnreadableDoc == Doc("unreadable", EmptyDict)
InvalidDoc == Doc("invalid", EmptyDict)
ArrayDoc == Doc("array", EmptyDict)

CaseTan ==
    Doc("object", [case_id |-> <<"case1">>, patient_name |-> <<"Mr Tan">>,
                   chief_complaint |-> <<"chest pain">>, singlish_level |-> "high",
                   past_medical_history |->
                       [type |-> "list", items |-> <<"Hypertension">>]])
CaseLim ==
    Doc("object", [patient_name |-> <<"Mdm Lim">>, singlish_level |-> "moderate"])
CaseBadHistory ==
    Doc("object", [case_id |-> <<"case3">>,
                   past_medical_history |-> [type |-> "int", items |-> <<>>]])

File(name, doc) == [name |-> name, doc |-> doc]

\* The cases directories a session is run against: absent, one case, and
\* two cases next to a malformed file.
SessionDirs ==
    { [exists |-> FALSE, listing |-> <<>>],
      [exists |-> TRUE, listing |-> <<File(<<"tan", ".json">>, CaseTan)>>],
      [exists |-> TRUE,
       listing |-> <<File(<<"lim", ".json">>, CaseLim),
                     File(<<"broken", ".json">>, InvalidDoc),
                     File(<<"case3", ".json">>, CaseBadHistory)>>] }

\* The directories of the case-store specification: every listing of at most
\* MaxFiles files with distinct names.
StoreNames ==
    { <<"a", ".json">>, <<"b", ".json">>, <<"a", ".json", ".json">>,
      <<"notes", ".txt">> }
StoreDocs ==
    { UnreadableDoc, InvalidDoc, ArrayDoc,
      Doc("object", [patient_name |-> <<"Mr Tan">>]),
      Doc("object", [case_id |-> <<"a">>]),
      Doc("object", [case_id |-> <<"b">>, patient_name |-> <<"Mdm Lim">>]),
      Doc("object", [case_id |-> Unhashable]) }
StoreFiles == { File(n, d) : n \in StoreNames, d \in StoreDocs }

DistinctNames(listing) ==
    \A i, j \in 1..Len(listing) : i # j => listing[i].name # listing[j].name

StoreListings ==
    UNION { { l \in [1..n -> StoreFiles] : DistinctNames(l) } : n \in 0..MaxFiles }

StoreDirs ==
    { [exists |-> FALSE, listing |-> <<>>] }
        \cup { [exists |-> TRUE, listing |-> l] : l \in StoreListings }

Prompts == { <<"What brings you in today?">>, <<"Any allergies?">> }

ApiOutcome(kind, text) == [kind |-> kind, text |-> text]
Envs ==
    { [api_key |-> TRUE,
       api |-> ApiOutcome("reply", <<"Aiyo doctor, my chest very pain leh">>)],
      [api_key |-> TRUE, api |-> ApiOutcome("error", <<"Connection error.">>)],
      [api_key |-> TRUE, api |-> ApiOutcome("malformed", <<>>)],
      [api_key |-> FALSE, api |-> ApiOutcome("error", <<"Connection error.">>)] }
NoEnv == [api_key |-> FALSE, api |-> ApiOutcome("none", <<>>)]

FormTexts == { <<>>, <<" ", "\n">>, <<"g", "o", "o", "d">>, <<" ", "o", "k", " ">> }
Timestamps == { "2026-01-01 10:00:00" }

Writers == { "w1", "w2" }

\* ------------------------------------------------------------------- state
VARIABLES
    directory,       \* the cases directory on disk
    feedback_file,   \* feedback.csv on disk
    session_state,   \* st.session_state of the one browser session
    pc,              \* "idle", or "calling" while get_ai_response runs
    call,            \* arguments of the get_ai_response call in progress
    payload,         \* messages= of the API request of the run just ended
    env,             \* environment the last get_ai_response ran in
    last_event,      \* the widget event the run just ended served
    dropped,         \* turns the run just ended removed from the sequence
    uncaught,        \* an exception left a page function
    loaded,          \* result of load_cases() in the case-store specification
    wpc,             \* per concurrent writer: its place in save_feedback
    wrow,            \* per concurrent writer: the row it is saving
    wsaves,          \* per concurrent writer: its save_feedback calls so far
    saved            \* rows whose save_feedback call has returned, in order

vars == <<directory, feedback_file, session_state, pc, call, payload, env,
          last_event, dropped, uncaught, loaded, wpc, wrow, wsaves, saved>>

sessionVars ==
    <<session_state, pc, call, payload, env, last_event, dropped, uncaught>>
writerVars == <<wpc, wrow, wsaves, saved>>

NoCall == [turns |-> <<>>, case_id |-> NoCase, prompt |-> <<>>]
NotLoaded == [called |-> FALSE, cases |-> EmptyDict, errors |-> <<>>]
NoRow == [timestamp |-> "", feedback |-> <<>>, rating |-> ""]

\* The session after the first run of main() (lines 487-488, then home_page).
NewSession ==
    [current_page |-> "home", current_case_id |-> NoCase, messages |-> <<>>,
     feedback_submitted |-> FALSE, case_selector |-> NoCase]

InitSession ==
    /\ session_state = NewSession
    /\ pc = "idle"
    /\ call = NoCall
    /\ payload = NoPayload
    /\ env = NoEnv
    /\ last_event = "start"
    /\ dropped = 0
    /\ uncaught = FALSE

InitWriters ==
    /\ wpc = [w \in Writers |-> "idle"]
    /\ wrow = [w \in Writers |-> NoRow]
    /\ wsaves = [w \in Writers |-> 0]
    /\ saved = <<>>

InitFile == feedback_file \in { NoFile, [exists |-> TRUE, rows |-> <<Header>>] }

Init ==
    /\ directory \in SessionDirs
    /\ InitFile
    /\ InitSession
    /\ InitWriters
    /\ loaded = NotLoaded

\* cases = load_cases() (line 324)
cases == load_cases(directory).cases
Keys == DOMAIN cases

\* ------------------------------------------------------- session actions
\* Each action is one widget event served to its end: the run it starts and,
\* where the code calls st.rerun(), the run that follows.

\* Turns a run that took the session from ss to new removed.
Dropped(ss, new) == IF new.messages = <<>> THEN Len(ss.messages) ELSE 0

\* The end of a run that made no completion call.
EndRun(ss, event) ==
    /\ session_state' = ss
    /\ pc' = "idle"
    /\ call' = NoCall
    /\ payload' = NoPayload
    /\ env' = NoEnv
    /\ last_event' = event
    /\ dropped' = Dropped(session_state, ss)
    /\ UNCHANGED <<uncaught, directory, loaded, writerVars>>

Exchanges(ss) == Len(ss.messages) \div 2

\* Sidebar buttons (lines 494-504): set the page, rerun.
SidebarNav(page) ==
    /\ pc = "idle"
    /\ \E sel \in Selectable(session_state, Keys) \cup {NoCase} :
          /\ (Keys # {} /\ page = "osce") <=> sel # NoCase
          /\ EndRun(render(set_page(session_state, page), Keys, sel), "navigate")
    /\ UNCHANGED feedback_file

\* The two buttons of home_page (lines 297-305).
HomeNav(page) ==
    /\ pc = "idle"
    /\ session_state.current_page = "home"
    /\ \E sel \in Selectable(session_state, Keys) \cup {NoCase} :
          /\ (Keys # {} /\ page = "osce") <=> sel # NoCase
          /\ EndRun(render(set_page(session_state, page), Keys, sel), "navigate")
    /\ UNCHANGED feedback_file

\* "Back to Home" of the no-cases notice (lines 326-331).
OsceNoCasesBack ==
    /\ pc = "idle"
    /\ session_state.current_page = "osce"
    /\ Keys = {}
    /\ EndRun(render(set_page(session_state, "home"), Keys, NoCase), "navigate")
    /\ UNCHANGED feedback_file

\* The user picks another option of the selectbox (lines 337-347).
SelectCase(selected_case_id) ==
    /\ pc = "idle"
    /\ session_state.current_page = "osce"
    /\ selected_case_id \in Keys
    /\ selected_case_id # session_state.case_selector
    /\ EndRun(osce_head(session_state, selected_case_id), "select")
    /\ UNCHANGED feedback_file

\* The user sends a prompt (lines 337-400): the run reaches the call of
\* get_ai_response with the user turn appended.
ChatInput(prompt) ==
    /\ pc = "idle"
    /\ session_state.current_page = "osce"
    /\ Keys # {}
    /\ Exchanges(session_state) < MaxExchanges
    /\ LET ss == append_user(
                     osce_head(session_state, session_state.case_selector), prompt)
       IN  /\ session_state' = ss
           /\ call' = [turns |-> ai_messages(ss.messages),
                       case_id |-> ss.case_selector, prompt |-> prompt]
           /\ dropped' = Dropped(session_state, ss)
    /\ pc' = "calling"
    /\ payload' = NoPayload
    /\ env' = NoEnv
    /\ last_event' = "chat_input"
    /\ UNCHANGED <<uncaught, directory, loaded, writerVars, feedback_file>>

\* get_ai_response returns and the run ends (lines 400-404).  An exception
\* leaving get_ai_response would end the run before line 404.
Respond(e) ==
    /\ pc = "calling"
    /\ LET r == get_ai_response(call.turns, cases[call.case_id], e)
       IN  /\ session_state' = IF r.raised THEN session_state
                               ELSE append_assistant(session_state, r.text)
           /\ uncaught' = (uncaught \/ r.raised)
           /\ payload' = r.payload
    /\ env' = e
    /\ pc' = "idle"
    /\ last_event' = "respond"
    /\ dropped' = 0
    /\ UNCHANGED <<call, directory, loaded, writerVars, feedback_file>>

\* "Clear Chat" (lines 410-413), then the rerun.
ClearChat ==
    /\ pc = "idle"
    /\ session_state.current_page = "osce"
    /\ Keys # {}
    /\ LET sel == session_state.case_selector
       IN  EndRun(render(clear_chat(osce_head(session_state, sel)), Keys, sel),
                  "clear")
    /\ UNCHANGED feedback_file

\* "Back to Home" of osce_page (lines 415-418), then the rerun.
OsceBackHome ==
    /\ pc = "idle"
    /\ session_state.current_page = "osce"
    /\ Keys # {}
    /\ LET sel == session_state.case_selector
       IN  EndRun(render(set_page(osce_head(session_state, sel), "home"),
                         Keys, NoCase),
                  "navigate")
    /\ UNCHANGED feedback_file

FileRows(file) == Len(SelectSeq(file.rows, LAMBDA row : row # Header))

\* "Submit Feedback" of the form (lines 447-475).
SubmitFeedback(feedback_text, rating, now) ==
    /\ pc = "idle"
    /\ session_state.current_page = "feedback"
    /\ ~session_state.feedback_submitted
    /\ feedback_accepted(feedback_text) => FileRows(feedback_file) < MaxRows
    /\ IF feedback_accepted(feedback_text)
          THEN /\ feedback_file' = save_feedback(feedback_file, now, feedback_text,
                                                 rating)
               /\ EndRun([session_state EXCEPT !.feedback_submitted = TRUE],
                         "submit")
          ELSE /\ UNCHANGED feedback_file
               /\ EndRun(session_state, "submit_rejected")

\* "Submit Another Response" (lines 435-437).
SubmitAnother ==
    /\ pc = "idle"
    /\ session_state.current_page = "feedback"
    /\ session_state.feedback_submitted
    /\ EndRun([session_state EXCEPT !.feedback_submitted = FALSE], "another")
    /\ UNCHANGED feedback_file

\* "Back to Home" of the thank-you view (lines 441-444).
FeedbackDoneBack ==
    /\ pc = "idle"
    /\ session_state.current_page = "feedback"
    /\ session_state.feedback_submitted
    /\ EndRun(render(set_page([session_state EXCEPT !.feedback_submitted = FALSE],
                              "home"), Keys, NoCase),
              "navigate")
    /\ UNCHANGED feedback_file

\* "Back to Home" under the form (lines 479-481).
FeedbackBack ==
    /\ pc = "idle"
    /\ session_state.current_page = "feedback"
    /\ ~session_state.feedback_submitted
    /\ EndRun(render(set_page(session_state, "home"), Keys, NoCase), "navigate")
    /\ UNCHANGED feedback_file

\* One step of the session, its inputs drawn from the given sets.
SessionNext(prompts, envs, texts, ratings) ==
    \/ \E page \in {"home", "osce", "feedback"} : SidebarNav(page)
    \/ \E page \in {"osce", "feedback"} : HomeNav(page)
    \/ OsceNoCasesBack
    \/ \E c \in Keys : SelectCase(c)
    \/ \E prompt \in prompts : ChatInput(prompt)
    \/ \E e \in envs : Respond(e)
    \/ ClearChat
    \/ OsceBackHome
    \/ \E t \in texts, r \in ratings, now \in Timestamps : SubmitFeedback(t, r, now)
    \/ SubmitAnother
    \/ FeedbackDoneBack
    \/ FeedbackBack

\* The session with every chat input and a small feedback form.
Next == SessionNext(Prompts, Envs, {<<" ", "\n">>, <<"g", "o", "o", "d">>}, {"Good"})

Spec == Init /\ [][Next]_vars

\* The session with every feedback form input and a small chat.
NextForm ==
    SessionNext({<<"What brings you in today?">>},
                {[api_key |-> TRUE, api |-> ApiOutcome("error", <<"Connection error.">>)]},
                FormTexts, Ratings)

SpecForm == Init /\ [][NextForm]_vars

\* ------------------------------------------------ case-store specification
\* load_cases() called on any directory of StoreDirs.
InitStore ==
    /\ directory \in StoreDirs
    /\ feedback_file = NoFile
    /\ InitSession
    /\ InitWriters
    /\ loaded = NotLoaded

LoadCases ==
    /\ ~loaded.called
    /\ loaded' = [called |-> TRUE, cases |-> load_cases(directory).cases,
                  errors |-> load_cases(directory).errors]
    /\ UNCHANGED <<directory, feedback_file, sessionVars, writerVars>>

NextStore == LoadCases

SpecStore == InitStore /\ [][NextStore]_vars

\* ------------------------------------------- concurrent-writer specification
\* Several sessions run save_feedback at once; each step is one file
\* operation of lines 182-199, and steps of different writers interleave.

\* feedback_page accepted the text (line 470) and calls save_feedback.
WStart(w, feedback_text, rating, now) ==
    /\ wpc[w] = "idle"
    /\ wsaves[w] < MaxSaves
    /\ feedback_accepted(feedback_text)
    /\ wrow' = [wrow EXCEPT ![w] = [timestamp |-> now, feedback |-> feedback_text,
                                    rating |-> rating]]
    /\ wsaves' = [wsaves EXCEPT ![w] = @ + 1]
    /\ wpc' = [wpc EXCEPT ![w] = "exists"]
    /\ UNCHANGED <<feedback_file, saved, directory, sessionVars, loaded>>

\* if not os.path.exists(feedback_file): (line 185)
WExists(w) ==
    /\ wpc[w] = "exists"
    /\ wpc' = [wpc EXCEPT ![w] = IF feedback_file.exists THEN "append" ELSE "open_w"]
    /\ UNCHANGED <<feedback_file, wrow, wsaves, saved, directory, sessionVars, loaded>>

\* open(feedback_file, "w", newline="") (line 186)
WOpenW(w) ==
    /\ wpc[w] = "open_w"
    /\ feedback_file' = open_w(feedback_file)
    /\ wpc' = [wpc EXCEPT ![w] = "write_header"]
    /\ UNCHANGED <<wrow, wsaves, saved, directory, sessionVars, loaded>>

\* writer.writerow(header), flushed when the with block closes the file
\* (lines 187-188)
WWriteHeader(w) ==
    /\ wpc[w] = "write_header"
    /\ feedback_file' = write_header(feedback_file)
    /\ wpc' = [wpc EXCEPT ![w] = "append"]
    /\ UNCHANGED <<wrow, wsaves, saved, directory, sessionVars, loaded>>

\* open(feedback_file, "a"), writer.writerow(row), close (lines 197-199)
WAppend(w) ==
    /\ wpc[w] = "append"
    /\ feedback_file' = append_row(feedback_file, wrow[w])
    /\ saved' = Append(saved, wrow[w])
    /\ wpc' = [wpc EXCEPT ![w] = "idle"]
    /\ UNCHANGED <<wrow, wsaves, directory, sessionVars, loaded>>

NextWriters ==
    \E w \in Writers :
        \/ \E t \in FormTexts, r \in Ratings, now \in Timestamps : WStart(w, t, r, now)
        \/ WExists(w)
        \/ WOpenW(w)
        \/ WWriteHeader(w)
        \/ WAppend(w)

InitWritersSpec ==
    /\ directory = [exists |-> FALSE, listing |-> <<>>]
    /\ InitFile
    /\ InitSession
    /\ InitWriters
    /\ loaded = NotLoaded

SpecWriters == InitWritersSpec /\ [][NextWriters]_vars

\* ------------------------------------------------------------------ claims
active_data == cases[call.case_id]
LastTurn == session_state.messages[Len(session_state.messages)]

\* C1: switching the active case clears the conversation.  Every turn held by
\* the session was appended under the case id that is active now; on the
\* simulator page the active case is the selected one; and the turns handed
\* to a completion call are the session's turns, all of the case the call is
\* made for.
C1_SwitchClears ==
    /\ \A i \in 1..Len(session_state.messages) :
          session_state.messages[i].under = session_state.current_case_id
    /\ (session_state.current_page = "osce" /\ Keys # {})
          => session_state.current_case_id = session_state.case_selector
    /\ pc = "calling"
          => /\ call.case_id = session_state.current_case_id
             /\ Len(call.turns) = Len(session_state.messages)

\* A case switch that found turns of the case before and removed them.
C1_Witness ==
    /\ last_event = "select"
    /\ dropped > 0
    /\ session_state.messages = <<>>

SorryPrefix == "I'm sorry, I'm having trouble responding right now. (Error: "
IsFallbackText(content) ==
    /\ Len(content) >= 3
    /\ content[1] = SorryPrefix
    /\ content[Len(content)] = ")"
ErrorDetail(content) == SubSeq(content, 2, Len(content) - 1)

\* C2: get_ai_response never raises.  No exception leaves a page function,
\* and a run that called it ends with exactly one assistant turn after the
\* turns sent: the API's text when every step succeeded, otherwise the
\* apologetic fallback that embeds the error detail (missing credential,
\* prompt building, API failure, unreadable response).
C2_NeverRaises ==
    /\ ~uncaught
    /\ last_event = "respond"
          => /\ Len(session_state.messages) = Len(call.turns) + 1
             /\ LastTurn.role = "assistant"
             /\ IF env.api_key /\ ~system_prompt(active_data).raised
                   /\ env.api.kind = "reply"
                   THEN LastTurn.content = env.api.text
                   ELSE /\ IsFallbackText(LastTurn.content)
                        /\ (env.api_key /\ ~system_prompt(active_data).raised
                            /\ env.api.kind = "error")
                              => ErrorDetail(LastTurn.content) = env.api.text

\* A send whose prompt building failed, answered by the fallback.
C2_Witness ==
    /\ last_event = "respond"
    /\ env.api_key
    /\ system_prompt(active_data).raised
    /\ IsFallbackText(LastTurn.content)

\* C3: the payload of a completion call is one system message followed by
\* every turn of the conversation so far, in order, roles and contents
\* unchanged, nothing cut; and the text the API returned is the assistant
\* turn appended, so it is in the payload of the next call.
C3_FullHistory ==
    /\ pc = "calling"
          => /\ Len(call.turns) = Len(session_state.messages)
             /\ \A i \in 1..Len(call.turns) :
                   /\ call.turns[i].role = session_state.messages[i].role
                   /\ call.turns[i].content = session_state.messages[i].content
    /\ (last_event = "respond" /\ payload # NoPayload)
          => /\ Len(payload) = Len(session_state.messages)
             /\ payload[1].role = "system"
             /\ payload[1].content = system_prompt(active_data).text
             /\ \A i \in 2..Len(payload) :
                   /\ payload[i].role = session_state.messages[i - 1].role
                   /\ payload[i].content = session_state.messages[i - 1].content
    /\ (last_event = "respond" /\ payload # NoPayload /\ env.api.kind = "reply")
          => LastTurn.content = env.api.text

\* The second call of a conversation: its payload holds the first reply.
C3_Witness ==
    /\ last_event = "respond"
    /\ Len(payload) = 4
    /\ payload[3].role = "assistant"
    /\ payload[3].content = <<"Aiyo doctor, my chest very pain leh">>
    /\ payload[2].content # payload[4].content

\* C4: the feedback sink is safe under concurrent writers.  Once every
\* writer is back from save_feedback, each row whose save returned is in the
\* file as often as it was saved, and the file holds exactly one header row.
Occurrences(rows, row) == Len(SelectSeq(rows, LAMBDA x : x = row))

C4_ConcurrentSafe ==
    (\A w \in Writers : wpc[w] = "idle")
        => /\ \A i \in 1..Len(saved) :
                 Occurrences(feedback_file.rows, saved[i])
                     >= Occurrences(saved, saved[i])
           /\ feedback_file.exists => Occurrences(feedback_file.rows, Header) = 1

IsBlank(text) == \A i \in 1..Len(text) : text[i] \in {" ", "\t", "\n"}

\* C5: a feedback submission with empty or whitespace-only text leaves the
\* file as it was (not created, no row added) and the submitted flag unset;
\* a submission with other text adds exactly one row after the rows already
\* there (after a new header when there was no file), carrying the text as
\* entered and the chosen rating, one of the five labels, and sets the flag.
C5_FormSubmit ==
    [][\A t \in FormTexts, r \in Ratings, now \in Timestamps :
          SubmitFeedback(t, r, now)
              => IF IsBlank(t)
                    THEN /\ feedback_file' = feedback_file
                         /\ ~session_state'.feedback_submitted
                    ELSE /\ feedback_file'.exists
                         /\ feedback_file'.rows =
                               (IF feedback_file.exists THEN feedback_file.rows
                                ELSE <<Header>>)
                               \o <<[timestamp |-> now, feedback |-> t, rating |-> r]>>
                         /\ r \in {"Very Poor", "Poor", "Average", "Good", "Excellent"}
                         /\ session_state'.feedback_submitted]_vars

\* A whitespace-only submission rejected after one with text was stored as
\* entered, surrounding blanks included.
C5_Witness ==
    /\ last_event = "submit_rejected"
    /\ feedback_file.rows =
          <<Header, [timestamp |-> "2026-01-01 10:00:00",
                     feedback |-> <<" ", "o", "k", " ">>, rating |-> "Excellent"]>>
    /\ ~session_state.feedback_submitted

\* Files of a listing that load_cases loads without an exception, and the
\* key each is stored under.
ClaimKey(file) ==
    IF "case_id" \in DOMAIN file.doc.fields THEN file.doc.fields.case_id
    ELSE SelectSeq(file.name, LAMBDA tok : tok # ".json")
IsCaseFile(file) == file.name[Len(file.name)] = ".json"
Loads(file) ==
    IsCaseFile(file) /\ file.doc.json = "object" /\ ClaimKey(file) # Unhashable
Loading(listing) == { i \in 1..Len(listing) : Loads(listing[i]) }
Failing(listing) == { i \in 1..Len(listing) : IsCaseFile(listing[i]) /\ ~Loads(listing[i]) }

\* C6 as stated: the catalog has one entry for every case file that parses.
C6_OneEntryPerFile ==
    loaded.called
        => /\ Cardinality(DOMAIN loaded.cases) = Cardinality(Loading(directory.listing))
           /\ \A i \in Loading(directory.listing) :
                 ClaimKey(directory.listing[i]) \in DOMAIN loaded.cases
           /\ ~directory.exists => (loaded.cases = EmptyDict /\ loaded.errors = <<>>)

\* C6 amended: the catalog's keys are the keys of the files that load; each
\* key holds the record of the last listed file that loads under it, so files
\* sharing a key give one entry; every file that fails is reported once and
\* gives no entry; an absent directory gives the empty mapping and no report.
C6_OneEntryPerKey ==
    loaded.called
        => LET l == directory.listing
           IN  /\ DOMAIN loaded.cases = { ClaimKey(l[i]) : i \in Loading(l) }
               /\ \A i \in Loading(l) :
                     (\A j \in Loading(l) : ClaimKey(l[j]) = ClaimKey(l[i]) => j <= i)
                         => loaded.cases[ClaimKey(l[i])] = l[i].doc.fields
               /\ Len(loaded.errors) = Cardinality(Failing(l))
               /\ \A i \in Failing(l) :
                     \E k \in 1..Len(loaded.errors) : loaded.errors[k] = l[i].name
               /\ ~directory.exists => (loaded.cases = EmptyDict /\ loaded.errors = <<>>)

\* A malformed file listed before two files that load under one key.
C6_Witness ==
    /\ loaded.called
    /\ Len(directory.listing) = 3
    /\ directory.listing[1].doc = InvalidDoc
    /\ Failing(directory.listing) = {1}
    /\ Loading(directory.listing) = {2, 3}
    /\ Cardinality(DOMAIN loaded.cases) = 1
    /\ loaded.errors = <<directory.listing[1].name>>

IsPrefix(a, b) == Len(a) <= Len(b) /\ SubSeq(b, 1, Len(a)) = a

\* C7: the turn sequence is append-only.  A step leaves it as it was, or
\* adds turns at its end, or empties it; and it empties a sequence that held
\* turns only when the active case id changes or on Clear Chat.
C7_AppendOnly ==
    [][LET old == session_state.messages
           new == session_state'.messages
       IN  \/ IsPrefix(old, new)
           \/ /\ new = <<>>
              /\ \/ last_event' = "clear"
                 \/ session_state'.current_case_id # session_state.current_case_id]_vars

\* Two exchanges of one conversation, each turn added after the ones before.
C7_Witness ==
    /\ last_event = "respond"
    /\ Len(session_state.messages) = 4
    /\ session_state.messages[1].content # session_state.messages[3].content

\* C8: Clear Chat empties the turn sequence and leaves the active case id,
\* the selected case and the current page as they were: the run that follows
\* shows the same case and finds no case switch.
C8_ClearKeepsCase ==
    [][last_event' = "clear"
          => /\ session_state'.messages = <<>>
             /\ session_state'.current_case_id = session_state.current_case_id
             /\ session_state'.case_selector = session_state.case_selector
             /\ session_state'.current_page = session_state.current_page
             /\ session_state'.current_page = "osce"]_vars

\* Clear Chat on a conversation that held turns.
C8_Witness ==
    /\ last_event = "clear"
    /\ dropped > 0
    /\ session_state.current_case_id # NoCase
    /\ session_state.current_page = "osce"

\* C9 as stated: turns are destroyed on navigation, so away from the
\* simulator the turn sequence is empty.
C9_NavigationDestroys ==
    session_state.current_page \in {"home", "feedback"}
        => session_state.messages = <<>>

\* C9 amended: navigation keeps the turns.  A navigation step leaves the turn
\* sequence as it was, except that arriving at the simulator with a selected
\* case other than the active one empties it.
C9_NavigationKeeps ==
    [][last_event' = "navigate"
          => IF /\ session_state'.current_page = "osce"
                /\ Keys # {}
                /\ session_state'.case_selector # session_state.current_case_id
                THEN session_state'.messages = <<>>
                ELSE session_state'.messages = session_state.messages]_vars

\* Away from the simulator with the conversation still in the session.
C9_Witness ==
    /\ last_event = "navigate"
    /\ session_state.current_page = "home"
    /\ Len(session_state.messages) = 2

Alternates(turns) ==
    \A i \in 1..Len(turns) :
        turns[i].role = IF i % 2 = 1 THEN "user" ELSE "assistant"

\* C10: at rest the turn sequence has even length and alternates user,
\* assistant from a user turn; the turns handed to a completion call are not
\* empty, of odd length, alternate, and end with the user turn just entered.
C10_Alternation ==
    /\ pc = "idle"
          => /\ Len(session_state.messages) % 2 = 0
             /\ Alternates(session_state.messages)
    /\ pc = "calling"
          => /\ call.turns # <<>>
             /\ Len(call.turns) % 2 = 1
             /\ Alternates(call.turns)
             /\ call.turns[Len(call.turns)].role = "user"
             /\ call.turns[Len(call.turns)].content = call.prompt

\* The second call of a conversation in flight.
C10_Witness ==
    /\ pc = "calling"
    /\ Len(call.turns) = 3

====
